---------------------------- MODULE Spec2Model ----------------------------
(* A model of the chat client's two stateful parts:                        *)
(*   - ChatCache (src/src/utils/cache.py): a SQLite file with the tables    *)
(*     messages and analytics_messages, reached through one connection     *)
(*     per thread;                                                          *)
(*   - OpenRouterClient (src/src/api/openrouter.py) and the send handler    *)
(*     of ChatApp (src/src/main.py).                                        *)
(* SpecStore, SpecConc and SpecFrame run the store's operations from        *)
(* several threads; SpecLife runs saves and then the store's finalizer;     *)
(* SpecClient runs the client; SpecApp runs the send handler of the         *)
(* application over both.                                                   *)
EXTENDS Integers, Sequences, FiniteSets, TLC

(***************************************************************************)
(* Bounds of the model.                                                    *)
(***************************************************************************)
\* save_message calls per thread in the two-thread run (SpecConc)
MaxSaves == 2
\* save_message calls in a run of SpecStore, over all threads
MaxInserts == 3
\* save_analytics calls in a run of SpecFrame
MaxAnalytics == 2
\* sends in a run of SpecApp
MaxSends == 2

(***************************************************************************)
(* Values.                                                                 *)
(***************************************************************************)
\* the threads that call the store; each has its own threading.local slot
Threads == {"t1", "t2"}
NoThread == "none"

\* arguments of save_message: (model, user_message, ai_response, tokens_used)
MessageArgs ==
    { [model |-> "gpt-3.5-turbo", user_message |-> "hello",
       ai_response |-> <<"hi">>, tokens_used |-> 5] }

\* arguments of save_analytics other than the caller's timestamp
AnalyticsArgs ==
    { [model |-> "gpt-3.5-turbo", message_length |-> 5,
       response_time |-> 1, tokens_used |-> 5] }

\* limit arguments of get_chat_history, up to the number of rows there can
\* be; SQLite reads a negative LIMIT as "no limit"
Limits == (-1)..MaxInserts

\* timestamps a caller of save_analytics passes
CallerTimestamps == {0, 1}

\* CURRENT_TIMESTAMP counts whole seconds: a statement runs in the second of
\* the statement before it, or in a later one
ClockSteps == {0, 1}

Max(a, b) == IF a >= b THEN a ELSE b
Min(a, b) == IF a <= b THEN a ELSE b

VARIABLES
    db,              \* the committed content of the database file
    txn,             \* per thread: the content its open transaction has written
    pc,              \* per thread: where it is inside a store operation
    conn,            \* per thread: self.local.conn, a connection or NoConn
    connections,     \* every connection sqlite3.connect has returned, in order
    alive,           \* the ChatCache object has not been finalized
    writer,          \* the thread holding SQLite's write lock, or NoThread
    now,             \* the store's clock (CURRENT_TIMESTAMP) at its last reading
    ret,             \* the call that returned last, and what it returned
    issued,          \* every identifier given to a message row, in order
    saved,           \* per thread: save_message calls that returned
    cleared          \* the thread whose clear_history returned last with no
                     \* save_message started since, or NoThread

connVars == <<conn, connections, alive>>

storeVars == <<db, txn, pc, connVars, writer, now, ret, issued, saved, cleared>>

VARIABLES
    envKey,            \* OPENROUTER_API_KEY in the environment
    client,            \* "none" before OpenRouterClient(), then "ready" or "ValueError"
    available_models,  \* the client's available_models
    requested,         \* the endpoints the client has sent a request to
    cret               \* the client call that returned last, and what it returned

clientVars == <<envKey, client, available_models, requested, cret>>

VARIABLES
    dropdown,          \* model_dropdown.value
    exch               \* per send: the state of its send_message_click

appVars == <<dropdown, exch>>

vars == <<storeVars, clientVars, appVars>>

(***************************************************************************)
(* The database: create_tables makes both tables with                      *)
(* INTEGER PRIMARY KEY AUTOINCREMENT, so SQLite keeps, per table, the       *)
(* largest rowid it ever gave in sqlite_sequence.                           *)
(***************************************************************************)
create_tables ==
    [messages |-> <<>>, analytics |-> <<>>,
     seq_messages |-> 0, seq_analytics |-> 0]

RECURSIVE MaxRowid(_)
MaxRowid(rows) ==
    IF rows = <<>> THEN 0
    ELSE Max(rows[Len(rows)].id, MaxRowid(SubSeq(rows, 1, Len(rows) - 1)))

\* a rowid column without AUTOINCREMENT: one more than the largest rowid
\* now in the table
NextRowidNoAutoincrement(rows, seq) == MaxRowid(rows) + 1

\* AUTOINCREMENT: one more than the largest rowid the table ever held
NextRowid(rows, seq) == Max(seq, MaxRowid(rows)) + 1

\* INSERT INTO messages (...) VALUES (?, ?, ?, CURRENT_TIMESTAMP, ?)
InsertMessage(d, a, ts) ==
    LET id == NextRowid(d.messages, d.seq_messages)
        row == [id |-> id, model |-> a.model, user_message |-> a.user_message,
                ai_response |-> a.ai_response, timestamp |-> ts,
                tokens_used |-> a.tokens_used]
    IN [d EXCEPT !.messages = Append(@, row), !.seq_messages = id]

\* INSERT INTO analytics_messages (...) VALUES (?, ?, ?, ?, ?)
InsertAnalytics(d, ts, a) ==
    LET id == NextRowid(d.analytics, d.seq_analytics)
        row == [id |-> id, timestamp |-> ts, model |-> a.model,
                message_length |-> a.message_length,
                response_time |-> a.response_time,
                tokens_used |-> a.tokens_used]
    IN [d EXCEPT !.analytics = Append(@, row), !.seq_analytics = id]

\* a clear that empties both tables
DeleteEverything(d) == [d EXCEPT !.messages = <<>>, !.analytics = <<>>]

\* a DELETE that leaves the newest row behind
DeleteAllButLast(d) ==
    [d EXCEPT !.messages =
        IF @ = <<>> THEN <<>> ELSE <<@[Len(@)]>>]

\* DELETE FROM messages: sqlite_sequence keeps its value
DeleteMessages(d) == [d EXCEPT !.messages = <<>>]

\* a commit that is never issued: the transaction's writes are dropped
CommitMissing(committed, written) == committed

\* conn.commit(): the transaction's writes become the file's content
Commit(committed, written) == written

(***************************************************************************)
(* Queries.  ORDER BY timestamp leaves the order of rows with equal        *)
(* timestamps to SQLite: every order that respects the timestamps is a     *)
(* possible answer.                                                        *)
(***************************************************************************)
RECURSIVE OrderingsBy(_, _, _)
\* the orderings of the rows at positions idx of rows, by timestamp,
\* descending when desc and ascending otherwise
OrderingsBy(rows, idx, desc) ==
    IF idx = {} THEN { <<>> }
    ELSE LET first == { i \in idx : \A j \in idx :
                          IF desc THEN rows[i].timestamp >= rows[j].timestamp
                                  ELSE rows[i].timestamp <= rows[j].timestamp }
         IN UNION { { <<rows[i]>> \o rest :
                        rest \in OrderingsBy(rows, idx \ {i}, desc) } : i \in first }

\* LIMIT ? taking one row too many
TakeLimitOffByOne(s, limit) ==
    IF limit < 0 THEN s ELSE SubSeq(s, 1, Min(limit + 1, Len(s)))

\* LIMIT ?: the first limit rows; all of them when limit is negative
TakeLimit(s, limit) ==
    IF limit < 0 THEN s ELSE SubSeq(s, 1, Min(limit, Len(s)))

\* SELECT * FROM messages ORDER BY timestamp DESC LIMIT ?
ChatHistoryResults(d, limit) ==
    { TakeLimit(o, limit) : o \in OrderingsBy(d.messages, DOMAIN d.messages, TRUE) }

AnalyticsColumns(r) ==
    [timestamp |-> r.timestamp, model |-> r.model,
     message_length |-> r.message_length, response_time |-> r.response_time,
     tokens_used |-> r.tokens_used]

\* SELECT timestamp, model, message_length, response_time, tokens_used
\* FROM analytics_messages ORDER BY timestamp ASC
AnalyticsHistoryResults(d) ==
    { [i \in DOMAIN o |-> AnalyticsColumns(o[i])] :
        o \in OrderingsBy(d.analytics, DOMAIN d.analytics, FALSE) }

(***************************************************************************)
(* OpenRouterClient.  What the provider does with a request is an outcome: *)
(* the connection fails, or an answer comes with a status and a body.      *)
(* requests follows redirects; a 3xx answer without a Location header is   *)
(* handed back as it is.                                                   *)
(***************************************************************************)
DEFAULT_API_KEY == "your-api-key-here"
DEFAULT_MAX_TOKENS == 1000
DEFAULT_TEMPERATURE == "0.7"

\* the variable is not in the environment
Unset == "<unset>"
EnvKeys == {Unset, "", "sk-or-key"}

\* os.getenv(name) or default: an empty value counts as none
getenvOrDefault(value, default) ==
    IF value = Unset \/ value = "" THEN default ELSE value

\* os.getenv(name, default): the default stands in only for a missing variable
getenv(value, default) == IF value = Unset THEN default ELSE value

api_key == getenv(envKey, DEFAULT_API_KEY)

Statuses == {200, 300, 404, 500}

\* resp.raise_for_status(): raises for 4xx and 5xx
raise_for_status(status) == status >= 400 /\ status < 600

Missing == "<missing>"
NoBody == [parse |-> "invalid", data_kind |-> "absent", data |-> <<>>]
ConnectionFails == [net |-> "fail", status |-> 0, body |-> NoBody]

\* bodies of GET /models: not JSON; a JSON array; objects without data, with
\* data null, with a data list whose entries may lack a key
ModelsBodies ==
    { NoBody,
      [parse |-> "array", data_kind |-> "absent", data |-> <<>>],
      [parse |-> "object", data_kind |-> "absent", data |-> <<>>],
      [parse |-> "object", data_kind |-> "null", data |-> <<>>],
      [parse |-> "object", data_kind |-> "list", data |-> <<>>],
      [parse |-> "object", data_kind |-> "list",
       data |-> << [id |-> "gpt-3.5-turbo", name |-> "GPT-3.5 Turbo"] >>],
      [parse |-> "object", data_kind |-> "list",
       data |-> << [id |-> "gpt-3.5-turbo", name |-> "GPT-3.5 Turbo"],
                   [id |-> "deepseek-coder", name |-> "DeepSeek"] >>],
      [parse |-> "object", data_kind |-> "list",
       data |-> << [id |-> "gpt-3.5-turbo", name |-> "GPT-3.5 Turbo"],
                   [id |-> "deepseek-coder", name |-> Missing] >>],
      [parse |-> "object", data_kind |-> "list",
       data |-> << [id |-> Missing, name |-> "DeepSeek"] >>] }

ModelsOutcomes ==
    {ConnectionFails}
      \cup { [net |-> "ok", status |-> st, body |-> b] :
               st \in Statuses, b \in ModelsBodies }

FallbackModels ==
    << [id |-> "deepseek-coder", name |-> "DeepSeek"],
       [id |-> "claude-3-sonnet", name |-> "Claude 3.5 Sonnet"],
       [id |-> "gpt-3.5-turbo", name |-> "GPT-3.5 Turbo"] >>

\* the try block of get_models raises: requests.get, raise_for_status,
\* resp.json(), .get on a body that is no object, iterating null, m['id'] or
\* m['name'] on an entry without the key
ModelsRaises(o) ==
    \/ o.net = "fail"
    \/ raise_for_status(o.status)
    \/ o.body.parse # "object"
    \/ o.body.data_kind = "null"
    \/ \E i \in DOMAIN o.body.data :
          o.body.data[i].id = Missing \/ o.body.data[i].name = Missing

\* get_models: resp.json().get('data', []) is the empty list when data is
\* absent
get_models(o) ==
    IF ModelsRaises(o) THEN FallbackModels
    ELSE [i \in DOMAIN o.body.data |->
            [id |-> o.body.data[i].id, name |-> o.body.data[i].name]]

NoError == "<absent>"

\* a body of POST /chat/completions as resp.json() gives it
Reply(parse, error, choices, content, usage, total_tokens) ==
    [parse |-> parse, error |-> error, choices |-> choices, content |-> content,
     usage |-> usage, total_tokens |-> total_tokens]

\* bodies of POST /chat/completions: not JSON; the documented completion;
\* one without usage; one whose usage is null; an object with neither
\* choices nor error; one with an empty choices list; the provider's own
\* error object; a JSON array; a JSON number
ChatBodies ==
    { Reply("invalid", NoError, "absent", "", "absent", 0),
      Reply("object", NoError, "ok", "hi", "ok", 5),
      Reply("object", NoError, "ok", "hi", "absent", 0),
      Reply("object", NoError, "ok", "hi", "null", 0),
      Reply("object", NoError, "absent", "", "absent", 0),
      Reply("object", NoError, "empty", "", "ok", 5),
      Reply("object", "No endpoints found", "absent", "", "absent", 0),
      Reply("array", NoError, "absent", "", "absent", 0),
      Reply("number", NoError, "absent", "", "absent", 0) }

ChatOutcomes ==
    {[net |-> "fail", status |-> 0,
      body |-> Reply("invalid", NoError, "absent", "", "absent", 0)]}
      \cup { [net |-> "ok", status |-> st, body |-> b] :
               st \in Statuses, b \in ChatBodies }

\* str(e) of the exception the try block of send_message caught
ErrorText(o) ==
    IF o.net = "fail" THEN "ConnectionError"
    ELSE IF raise_for_status(o.status) THEN "HTTPError"
    ELSE "JSONDecodeError"

\* the payload send_message posts
Payload(message, model) ==
    [model |-> model, messages |-> << [role |-> "user", content |-> message] >>,
     max_tokens |-> DEFAULT_MAX_TOKENS, temperature |-> DEFAULT_TEMPERATURE]

\* the try block of send_message raises: requests.post, raise_for_status,
\* resp.json()
SendRaises(o) ==
    \/ o.net = "fail"
    \/ raise_for_status(o.status)
    \/ o.body.parse = "invalid"

\* send_message: the parsed body as it came, or {'error': str(e)}
send_message(o) ==
    IF SendRaises(o) THEN Reply("object", ErrorText(o), "absent", "", "absent", 0)
    ELSE o.body

NoReply == Reply("none", NoError, "absent", "", "absent", 0)

\* a body of GET /credits: amounts in cents; has_credits and has_usage tell
\* whether data holds total_credits and total_usage
Credits(parse, data_kind, has_credits, total_credits, has_usage, total_usage) ==
    [parse |-> parse, data_kind |-> data_kind,
     has_credits |-> has_credits, total_credits |-> total_credits,
     has_usage |-> has_usage, total_usage |-> total_usage]

\* bodies of GET /credits: not JSON; a JSON array; objects without data, with
\* data null, with the documented data (10 granted, 3.5 used), with data
\* lacking total_usage, with more used than granted
BalanceBodies ==
    { Credits("invalid", "absent", FALSE, 0, FALSE, 0),
      Credits("array", "absent", FALSE, 0, FALSE, 0),
      Credits("object", "absent", FALSE, 0, FALSE, 0),
      Credits("object", "null", FALSE, 0, FALSE, 0),
      Credits("object", "object", TRUE, 1000, TRUE, 350),
      Credits("object", "object", TRUE, 1000, FALSE, 0),
      Credits("object", "object", TRUE, 100, TRUE, 205) }

BalanceOutcomes ==
    {[net |-> "fail", status |-> 0,
      body |-> Credits("invalid", "absent", FALSE, 0, FALSE, 0)]}
      \cup { [net |-> "ok", status |-> st, body |-> b] :
               st \in Statuses, b \in BalanceBodies }

\* what get_balance returns: the failure word, or f"${balance:.2f}" as its
\* sign, whole part and two decimals
BalanceText(text, negative, whole, tenths, hundredths) ==
    [text |-> text, negative |-> negative, whole |-> whole,
     tenths |-> tenths, hundredths |-> hundredths]

BalanceFailed == BalanceText("Error", FALSE, 0, 0, 0)

NoBalance == BalanceText("none", FALSE, 0, 0, 0)

\* f"${balance:.2f}" of an amount in cents
FormatBalance(cents) ==
    LET a == IF cents < 0 THEN 0 - cents ELSE cents
    IN BalanceText("$", cents < 0, a \div 100, (a % 100) \div 10, a % 10)

\* the try block of get_balance raises: requests.get, raise_for_status,
\* resp.json(), .get on a body that is no object, .get on a null data
BalanceRaises(o) ==
    \/ o.net = "fail"
    \/ raise_for_status(o.status)
    \/ o.body.parse # "object"
    \/ o.body.data_kind = "null"

\* get_balance: data.get('total_credits', 0) - data.get('total_usage', 0),
\* with data = {} when the body has none
get_balance(o) ==
    IF BalanceRaises(o) THEN BalanceFailed
    ELSE LET total_credits == IF o.body.has_credits THEN o.body.total_credits ELSE 0
             total_usage == IF o.body.has_usage THEN o.body.total_usage ELSE 0
         IN FormatBalance(total_credits - total_usage)

ClientReturned(op, o, models, reply, payload) ==
    [op |-> op, outcome |-> o, models |-> models, reply |-> reply,
     payload |-> payload, balance |-> NoBalance]

NoPayload == Payload("", "")

NoClientCall == ClientReturned("none", ConnectionFails, <<>>, NoReply, NoPayload)

(***************************************************************************)
(* The store's operations, from thread t.  A writing statement opens a     *)
(* transaction and takes the file's write lock; sqlite3 waits while another *)
(* connection holds it.  The lock is released by the commit that the same  *)
(* call issues next.                                                       *)
(***************************************************************************)
NoTxn == create_tables

\* the write lock is free: the statement can run
LockFree == writer = NoThread

\* the thread has no attribute conn in self.local
NoConn == 0

\* the connections after __init__: the one create_tables opened and closed
CreateTablesConnection == << [opened_by |-> "create_tables", open |-> FALSE] >>

\* sqlite3.connect(self.db_path, ...): a new connection, open
Connect(t) == Append(connections, [opened_by |-> t, open |-> TRUE])

\* a get_connection that keeps the connection in one attribute of the
\* object for all threads
get_connectionShared(t) ==
    /\ alive
    /\ IF \A u \in Threads : conn[u] = NoConn
       THEN /\ connections' = Connect(t)
            /\ conn' = [conn EXCEPT ![t] = Len(connections) + 1]
       ELSE /\ conn' = [conn EXCEPT ![t] =
                          conn[CHOOSE u \in Threads : conn[u] # NoConn]]
            /\ UNCHANGED connections
    /\ UNCHANGED alive

\* get_connection: the calling thread's connection, made at its first call
get_connection(t) ==
    /\ alive
    /\ IF conn[t] = NoConn
       THEN /\ connections' = Connect(t)
            /\ conn' = [conn EXCEPT ![t] = Len(connections) + 1]
       ELSE UNCHANGED <<conn, connections>>
    /\ UNCHANGED alive

\* a call that returns None
Returned(t, op) ==
    [op |-> op, thread |-> t, limit |-> 0, rows |-> <<>>, after_clear |-> FALSE]

\* the state after ChatCache(), with no client and no application
StoreInit ==
    /\ envKey = Unset
    /\ client = "none"
    /\ available_models = <<>>
    /\ requested = {}
    /\ cret = NoClientCall
    /\ dropdown = Missing
    /\ exch = <<>>
    /\ db = create_tables
    /\ txn = [t \in Threads |-> NoTxn]
    /\ pc = [t \in Threads |-> "idle"]
    /\ conn = [t \in Threads |-> NoConn]
    /\ connections = CreateTablesConnection
    /\ alive = TRUE
    /\ writer = NoThread
    /\ now = 0
    /\ ret = Returned(NoThread, "create_tables")
    /\ issued = <<>>
    /\ saved = [t \in Threads |-> 0]
    /\ cleared = NoThread

\* save_message up to and including cursor.execute, which reads the clock
save_message_execute(t, a) ==
    /\ pc[t] = "idle"
    /\ LockFree
    /\ get_connection(t)
    /\ writer' = t
    /\ \E dt \in ClockSteps :
          /\ now' = now + dt
          /\ txn' = [txn EXCEPT ![t] = InsertMessage(db, a, now + dt)]
    /\ pc' = [pc EXCEPT ![t] = "save_commit"]
    /\ cleared' = NoThread
    /\ UNCHANGED <<db, ret, issued, saved>>
    /\ UNCHANGED <<clientVars, appVars>>

\* save_message's conn.commit()
save_message_commit(t) ==
    /\ pc[t] = "save_commit"
    /\ db' = Commit(db, txn[t])
    /\ issued' = Append(issued, txn[t].messages[Len(txn[t].messages)].id)
    /\ saved' = [saved EXCEPT ![t] = @ + 1]
    /\ writer' = NoThread
    /\ txn' = [txn EXCEPT ![t] = NoTxn]
    /\ pc' = [pc EXCEPT ![t] = "idle"]
    /\ ret' = Returned(t, "save_message")
    /\ UNCHANGED <<connVars, now, cleared>>
    /\ UNCHANGED <<clientVars, appVars>>

\* get_chat_history(limit)
get_chat_history(t, limit) ==
    /\ pc[t] = "idle"
    /\ get_connection(t)
    /\ \E r \in ChatHistoryResults(db, limit) :
          ret' = [op |-> "get_chat_history", thread |-> t, limit |-> limit,
                  rows |-> r, after_clear |-> cleared # NoThread]
    /\ UNCHANGED <<db, txn, pc, writer, now, issued, saved, cleared>>
    /\ UNCHANGED <<clientVars, appVars>>

\* clear_history up to and including cursor.execute
clear_history_execute(t) ==
    /\ pc[t] = "idle"
    /\ LockFree
    /\ get_connection(t)
    /\ writer' = t
    /\ txn' = [txn EXCEPT ![t] = DeleteMessages(db)]
    /\ pc' = [pc EXCEPT ![t] = "clear_commit"]
    /\ UNCHANGED <<db, now, ret, issued, saved, cleared>>
    /\ UNCHANGED <<clientVars, appVars>>

\* clear_history's conn.commit()
clear_history_commit(t) ==
    /\ pc[t] = "clear_commit"
    /\ db' = Commit(db, txn[t])
    /\ cleared' = t
    /\ writer' = NoThread
    /\ txn' = [txn EXCEPT ![t] = NoTxn]
    /\ pc' = [pc EXCEPT ![t] = "idle"]
    /\ ret' = Returned(t, "clear_history")
    /\ UNCHANGED <<connVars, now, issued, saved>>
    /\ UNCHANGED <<clientVars, appVars>>

\* save_analytics up to and including cursor.execute; the caller gives the
\* timestamp
save_analytics_execute(t, ts, a) ==
    /\ pc[t] = "idle"
    /\ LockFree
    /\ get_connection(t)
    /\ writer' = t
    /\ txn' = [txn EXCEPT ![t] = InsertAnalytics(db, ts, a)]
    /\ pc' = [pc EXCEPT ![t] = "analytics_commit"]
    /\ UNCHANGED <<db, now, ret, issued, saved, cleared>>
    /\ UNCHANGED <<clientVars, appVars>>

\* save_analytics's conn.commit()
save_analytics_commit(t) ==
    /\ pc[t] = "analytics_commit"
    /\ db' = Commit(db, txn[t])
    /\ writer' = NoThread
    /\ txn' = [txn EXCEPT ![t] = NoTxn]
    /\ pc' = [pc EXCEPT ![t] = "idle"]
    /\ ret' = Returned(t, "save_analytics")
    /\ UNCHANGED <<connVars, now, issued, saved, cleared>>
    /\ UNCHANGED <<clientVars, appVars>>

\* get_analytics_history()
get_analytics_history(t) ==
    /\ pc[t] = "idle"
    /\ get_connection(t)
    /\ \E r \in AnalyticsHistoryResults(db) :
          ret' = [Returned(t, "get_analytics_history") EXCEPT !.rows = r]
    /\ UNCHANGED <<db, txn, pc, writer, now, issued, saved, cleared>>
    /\ UNCHANGED <<clientVars, appVars>>

\* save_message, called while the run's budget of inserts lasts
SaveStep ==
    \/ \E t \in Threads, a \in MessageArgs :
          Len(issued) + Cardinality({u \in Threads : pc[u] = "save_commit"}) < MaxInserts
          /\ save_message_execute(t, a)
    \/ \E t \in Threads : save_message_commit(t)

\* clear_history
ClearStep ==
    \/ \E t \in Threads : clear_history_execute(t)
    \/ \E t \in Threads : clear_history_commit(t)

\* the message operations of the store called from any thread, in any order
StoreNext ==
    \/ SaveStep
    \/ ClearStep
    \/ \E t \in Threads, limit \in Limits : get_chat_history(t, limit)

\* two threads, each calling save_message MaxSaves times and nothing else
ConcNext ==
    \/ \E t \in Threads, a \in MessageArgs :
          saved[t] < MaxSaves /\ save_message_execute(t, a)
    \/ \E t \in Threads : save_message_commit(t)

\* the writes of both tables and the analytics query, from any thread
FrameNext ==
    \/ SaveStep
    \/ ClearStep
    \/ \E t \in Threads, ts \in CallerTimestamps, a \in AnalyticsArgs :
          Len(db.analytics) + Cardinality({u \in Threads : pc[u] = "analytics_commit"})
             < MaxAnalytics
          /\ save_analytics_execute(t, ts, a)
    \/ \E t \in Threads : save_analytics_commit(t)
    \/ \E t \in Threads : get_analytics_history(t)

\* __del__, run by thread t when no call on the object is in progress: it
\* closes the connection of the thread that runs it
ChatCache__del__(t) ==
    /\ alive
    /\ \A u \in Threads : pc[u] = "idle"
    /\ alive' = FALSE
    /\ connections' = IF conn[t] = NoConn THEN connections
                      ELSE [connections EXCEPT ![conn[t]].open = FALSE]
    /\ ret' = Returned(t, "__del__")
    /\ UNCHANGED <<db, txn, pc, conn, writer, now, issued, saved, cleared>>
    /\ UNCHANGED <<clientVars, appVars>>

\* the store used by two threads and then finalized by one of them
LifeNext ==
    \/ SaveStep
    \/ \E t \in Threads : ChatCache__del__(t)

\* an environment, before OpenRouterClient() is called
ClientInit ==
    /\ envKey \in EnvKeys
    /\ client = "none"
    /\ available_models = <<>>
    /\ requested = {}
    /\ cret = NoClientCall
    /\ dropdown = Missing
    /\ exch = <<>>
    /\ db = create_tables
    /\ txn = [t \in Threads |-> NoTxn]
    /\ pc = [t \in Threads |-> "idle"]
    /\ conn = [t \in Threads |-> NoConn]
    /\ connections = CreateTablesConnection
    /\ alive = TRUE
    /\ writer = NoThread
    /\ now = 0
    /\ ret = Returned(NoThread, "create_tables")
    /\ issued = <<>>
    /\ saved = [t \in Threads |-> 0]
    /\ cleared = NoThread

\* OpenRouterClient(): raises ValueError when the key is empty, otherwise
\* fetches the models
Construct(o) ==
    /\ client = "none"
    /\ IF api_key = ""
       THEN /\ client' = "ValueError"
            /\ cret' = ClientReturned("__init__", ConnectionFails, <<>>, NoReply,
                                      NoPayload)
            /\ UNCHANGED <<available_models, requested>>
       ELSE /\ client' = "ready"
            /\ requested' = requested \cup {"models"}
            /\ available_models' = get_models(o)
            /\ cret' = ClientReturned("__init__", o, get_models(o), NoReply,
                                      NoPayload)
    /\ UNCHANGED envKey
    /\ UNCHANGED <<storeVars, appVars>>

\* get_models() on a constructed client
list_models(o) ==
    /\ client = "ready"
    /\ requested' = requested \cup {"models"}
    /\ cret' = ClientReturned("get_models", o, get_models(o), NoReply, NoPayload)
    /\ UNCHANGED <<envKey, client, available_models>>
    /\ UNCHANGED <<storeVars, appVars>>

\* send_message(message, model) on a constructed client
client_send_message(message, model, o) ==
    /\ client = "ready"
    /\ requested' = requested \cup {"chat/completions"}
    /\ cret' = ClientReturned("send_message", o, <<>>, send_message(o),
                              Payload(message, model))
    /\ UNCHANGED <<envKey, client, available_models>>
    /\ UNCHANGED <<storeVars, appVars>>

\* get_balance() on a constructed client
client_get_balance(o) ==
    /\ client = "ready"
    /\ requested' = requested \cup {"credits"}
    /\ cret' = [ClientReturned("get_balance", o, <<>>, NoReply, NoPayload)
                  EXCEPT !.balance = get_balance(o)]
    /\ UNCHANGED <<envKey, client, available_models>>
    /\ UNCHANGED <<storeVars, appVars>>

UserTexts == {"hello"}
ModelIds == {"gpt-3.5-turbo", "deepseek-coder"}

ClientNext ==
    \/ \E o \in ModelsOutcomes : Construct(o)
    \/ \E o \in ModelsOutcomes : list_models(o)
    \/ \E m \in UserTexts, model \in ModelIds, o \in ChatOutcomes :
          client_send_message(m, model, o)
    \/ \E o \in BalanceOutcomes : client_get_balance(o)

(***************************************************************************)
(* ChatApp: send_message_click.  A click starts a handler on the event     *)
(* loop; the handler hands api_client.send_message to the executor, where  *)
(* the lambda reads the dropdown and makes the call, and awaits it; when   *)
(* the call has returned the event loop runs the rest of the handler in    *)
(* one piece.  Handlers of several clicks overlap while they await.        *)
(***************************************************************************)
\* the thread that runs the event loop, one of the store's callers
UiThread == "t1"

\* f"..." prefix of the assistant text of a failed send (the Russian word
\* for "Error", a colon and a space in the source)
ErrorPrefix == "Error: "

\* len(user_message)
CharLen(text) == CASE text = "hello" -> 5 [] text = "" -> 0

\* "error" in response raises: the response is a number
InspectRaises(r) == r.parse = "number"

\* "error" in response: a key of an object; an element of an array
HasErrorKey(r) == r.parse = "object" /\ r.error # NoError

\* response["choices"][0]["message"]["content"] or
\* response.get("usage", {}).get("total_tokens", 0) raises
ExtractRaises(r) ==
    \/ r.parse # "object"
    \/ r.choices # "ok"
    \/ r.usage = "null"

\* the try block of send_message_click raises while it reads the response
HandlerRaises(r) == InspectRaises(r) \/ (~HasErrorKey(r) /\ ExtractRaises(r))

\* response_text: a text is the sequence of its pieces
response_text(r) ==
    IF HasErrorKey(r) THEN <<ErrorPrefix, r.error>> ELSE <<r.content>>

\* a handler that records no tokens for any response
tokens_usedAlwaysZero(r) == 0

\* tokens_used
tokens_used(r) ==
    IF HasErrorKey(r) THEN 0
    ELSE IF r.usage = "ok" THEN r.total_tokens ELSE 0

\* cache.save_message(...) from the event loop's thread, the only caller of
\* the store in the application: statement and commit
save_message(d, model, user_message, ai_response, tokens, ts) ==
    Commit(d, InsertMessage(d, [model |-> model, user_message |-> user_message,
                                ai_response |-> ai_response,
                                tokens_used |-> tokens], ts))

\* cache.save_analytics(...): statement and commit
save_analytics(d, ts, model, message_length, response_time, tokens) ==
    Commit(d, InsertAnalytics(d, ts, [model |-> model,
                                      message_length |-> message_length,
                                      response_time |-> response_time,
                                      tokens_used |-> tokens]))

\* Analytics.track_message: one sample, saved with the current time
track_message(d, ts, model, message_length, response_time, tokens) ==
    save_analytics(d, ts, model, message_length, response_time, tokens)

\* the lists get_models can give the constructor
ListedModels == { get_models(o) : o \in ModelsOutcomes }

ModelIdsOf(models) == { models[i].id : i \in DOMAIN models }

Sends == 1..MaxSends

NoSend == [pc |-> "idle", user_message |-> "", start_time |-> 0,
           model_sent |-> Missing, response |-> NoReply, row_id |-> 0,
           tracked |-> 0]

\* the state after ChatApp() and main(page): a constructed client, the
\* first listed model selected (none when the list is empty)
AppInit ==
    /\ envKey = "sk-or-key"
    /\ client = "ready"
    /\ available_models \in ListedModels
    /\ requested = {"models", "credits"}
    /\ cret = NoClientCall
    /\ dropdown = IF available_models = <<>> THEN Missing
                  ELSE available_models[1].id
    /\ exch = [s \in Sends |-> NoSend]
    /\ db = create_tables
    /\ txn = [t \in Threads |-> NoTxn]
    /\ pc = [t \in Threads |-> "idle"]
    /\ conn = [t \in Threads |-> NoConn]
    /\ connections = CreateTablesConnection
    /\ alive = TRUE
    /\ writer = NoThread
    /\ now = 0
    /\ ret = Returned(NoThread, "create_tables")
    /\ issued = <<>>
    /\ saved = [t \in Threads |-> 0]
    /\ cleared = NoThread

\* the user picks another model
select_model(m) ==
    /\ m \in ModelIdsOf(available_models)
    /\ m # dropdown
    /\ dropdown' = m
    /\ UNCHANGED <<exch, storeVars, clientVars>>

\* send_message_click up to its await: returns at once on an empty input
send_message_click(s, text) ==
    /\ exch[s].pc = "idle"
    /\ \A r \in Sends : r < s => exch[r].pc # "idle"
    /\ IF text = ""
       THEN UNCHANGED exch
       ELSE exch' = [exch EXCEPT ![s] =
                       [NoSend EXCEPT !.pc = "in_flight",
                                      !.user_message = text,
                                      !.start_time = now]]
    /\ UNCHANGED <<dropdown, storeVars, clientVars>>

\* the executor runs the lambda: it reads the dropdown and calls
\* api_client.send_message, which returns
executor_run(s, o) ==
    /\ exch[s].pc = "in_flight"
    /\ exch' = [exch EXCEPT ![s].pc = "returned",
                            ![s].model_sent = dropdown,
                            ![s].response = send_message(o)]
    /\ UNCHANGED <<dropdown, storeVars, clientVars>>

\* the handler after its await: it reads the response, saves the message
\* and tracks the sample, or lands in its except block; its local variables
\* end with it
send_message_resume(s) ==
    /\ exch[s].pc = "returned"
    /\ LET r == exch[s].response IN
       IF HandlerRaises(r)
       THEN /\ exch' = [exch EXCEPT ![s] = [NoSend EXCEPT !.pc = "failed"]]
            /\ UNCHANGED <<db, now, connVars, issued>>
       ELSE \E dt \in ClockSteps :
              LET ts == now + dt
                  d1 == save_message(db, dropdown, exch[s].user_message,
                                     response_text(r), tokens_used(r), ts)
                  d2 == track_message(d1, ts, dropdown,
                                      CharLen(exch[s].user_message),
                                      ts - exch[s].start_time, tokens_used(r))
              IN /\ now' = ts
                 /\ db' = d2
                 /\ get_connection(UiThread)
                 /\ issued' = Append(issued, d1.seq_messages)
                 /\ exch' = [exch EXCEPT ![s] =
                               [NoSend EXCEPT !.pc = "done",
                                              !.row_id = d1.seq_messages,
                                              !.tracked = 1]]
    /\ UNCHANGED <<dropdown, txn, pc, writer, ret, saved, cleared, clientVars>>

AppNext ==
    \/ \E m \in ModelIds : select_model(m)
    \/ \E s \in Sends, text \in UserTexts \cup {""} : send_message_click(s, text)
    \/ \E s \in Sends, o \in ChatOutcomes : executor_run(s, o)
    \/ \E s \in Sends : send_message_resume(s)

(***************************************************************************)
(* Specifications.                                                         *)
(***************************************************************************)
SpecStore == StoreInit /\ [][StoreNext]_vars

SpecConc == StoreInit /\ [][ConcNext]_vars

SpecFrame == StoreInit /\ [][FrameNext]_vars

SpecLife == StoreInit /\ [][LifeNext]_vars

SpecClient == ClientInit /\ [][ClientNext]_vars

SpecApp == AppInit /\ [][AppNext]_vars

(***************************************************************************)
(* Properties of the store.                                                *)
(***************************************************************************)
RECURSIVE SumOver(_, _)
SumOver(f, S) ==
    IF S = {} THEN 0
    ELSE LET x == CHOOSE y \in S : TRUE IN f[x] + SumOver(f, S \ {x})

\* C1: get_chat_history(limit=N) returns at most N rows (N >= 0), no row of
\* the answer is followed by a row with a later timestamp, and limit=0
\* gives the empty sequence.
C1_HistoryLimitedNewestFirst ==
    ret.op = "get_chat_history" =>
        /\ ret.limit >= 0 => Len(ret.rows) <= ret.limit
        /\ \A i, j \in DOMAIN ret.rows :
              i < j => ret.rows[i].timestamp >= ret.rows[j].timestamp
        /\ ret.limit = 0 => ret.rows = <<>>

\* a read with limit 1 of two rows of different seconds, after an earlier
\* row was cleared, answers the newer row alone
C1_Witness ==
    /\ ret.op = "get_chat_history"
    /\ ret.limit = 1
    /\ Len(ret.rows) = 1
    /\ Len(db.messages) = 2
    /\ db.seq_messages = 3
    /\ db.messages[1].timestamp < db.messages[2].timestamp
    /\ ret.rows[1] = db.messages[2]

\* C2: a get_chat_history that follows a clear_history with no save_message
\* in between returns the empty sequence, whichever threads saved, cleared
\* and read.
C2_EmptyAfterClear ==
    (ret.op = "get_chat_history" /\ ret.after_clear) => ret.rows = <<>>

\* t1 saved, t2 cleared, t1 read everything
C2_Witness ==
    /\ ret.op = "get_chat_history"
    /\ ret.after_clear
    /\ ret.limit = -1
    /\ ret.thread = "t1"
    /\ cleared = "t2"
    /\ saved["t1"] > 0
    /\ saved["t2"] = 0

\* C3: every identifier save_message gives is greater than every identifier
\* given before it, rows removed by clear_history included; the rows of the
\* table carry distinct identifiers that were given.
C3_IdentifiersIncrease ==
    /\ \A i, j \in DOMAIN issued : i < j => issued[i] < issued[j]
    /\ \A i, j \in DOMAIN db.messages :
          i # j => db.messages[i].id # db.messages[j].id
    /\ \A i \in DOMAIN db.messages :
          \E k \in DOMAIN issued : issued[k] = db.messages[i].id

\* a row saved after a clear that removed two rows
C3_Witness ==
    /\ Len(issued) = 3
    /\ Len(db.messages) = 1
    /\ db.messages[1].id = 3

\* C4: with two threads saving, the table holds one row per save_message
\* that returned, under every interleaving, and no two rows share an
\* identifier; when each thread has saved MaxSaves times there are
\* 2 * MaxSaves rows.
C4_ConcurrentSavesAllKept ==
    /\ Len(db.messages) = SumOver(saved, Threads)
    /\ \A i, j \in DOMAIN db.messages :
          i # j => db.messages[i].id # db.messages[j].id
    /\ (\A t \in Threads : saved[t] = MaxSaves)
          => Len(db.messages) = Cardinality(Threads) * MaxSaves

\* both threads have saved MaxSaves times, the last save being t1's
C4_Witness ==
    /\ \A t \in Threads : saved[t] = MaxSaves /\ pc[t] = "idle"
    /\ ret.thread = "t1"
    /\ Len(db.messages) = 2 * MaxSaves

ClearRunning == \E t \in Threads : pc[t] = "clear_commit"

\* C9: from the start of a clear_history call to its return the answers of
\* get_analytics_history stay the same, and at its return the messages
\* table is empty.
C9_ClearLeavesAnalytics ==
    [][ /\ (ClearRunning \/ ClearRunning')
            => AnalyticsHistoryResults(db') = AnalyticsHistoryResults(db)
        /\ (ClearRunning /\ ~ClearRunning') => db'.messages = <<>>
      ]_vars

\* a clear_history has just returned: it removed message rows and two
\* analytics rows are still there
C9_Witness ==
    /\ ret.op = "clear_history"
    /\ db.messages = <<>>
    /\ db.seq_messages > 0
    /\ Len(db.analytics) = 2

(***************************************************************************)
(* Properties of the client.                                               *)
(***************************************************************************)
ListingReturned == client = "ready" /\ cret.op \in {"__init__", "get_models"}

\* C5: list_models never returns an empty sequence, whatever the outcome of
\* the model-listing request.
C5_ListNeverEmpty ==
    /\ ListingReturned => cret.models # <<>>
    /\ client = "ready" => available_models # <<>>

\* the listing request failed as C6 counts it: no connection, a status
\* outside 2xx, a body that is no JSON, an entry without id or name
ListingFailed(o) ==
    \/ o.net = "fail"
    \/ o.status \notin 200..299
    \/ o.body.parse = "invalid"
    \/ \E i \in DOMAIN o.body.data :
          o.body.data[i].id = Missing \/ o.body.data[i].name = Missing

\* C6: when the model-listing request fails in any way, list_models returns
\* exactly the three-entry fallback list.
C6_FailureGivesFallback ==
    (ListingReturned /\ ListingFailed(cret.outcome)) => cret.models = FallbackModels

\* the remote call failed as C7 counts it: no connection, a status outside
\* 2xx, or a body that is neither a completion nor an error object
RemoteFailure(o) ==
    \/ o.net = "fail"
    \/ o.status \notin 200..299
    \/ o.body.parse # "object"
    \/ (o.body.error = NoError /\ o.body.choices # "ok")

\* C7: for every remote-call failure send_message returns a result with an
\* error field, and a caller that looks for the error field and otherwise
\* reads the completion meets no exception.
C7_SendFailureCarriesError ==
    cret.op = "send_message" =>
        /\ RemoteFailure(cret.outcome) => HasErrorKey(cret.reply)
        /\ ~HandlerRaises(cret.reply)

C10_EveryReturnTracked ==
    /\ \A s \in Sends : exch[s].pc \in {"done", "failed"} => exch[s].tracked = 1
    /\ Len(db.analytics) =
          Cardinality({s \in Sends : exch[s].pc \in {"done", "failed"}})

\* the handler of send s runs its part after the await in this step
Resumes(s) == exch[s].pc = "returned" /\ exch'[s].pc # "returned"

\* the message row and the analytics row this step added last
SavedRow == db'.messages[Len(db'.messages)]
TrackedRow == db'.analytics[Len(db'.analytics)]

\* what send_message gave back tells of a failed remote call: the error
\* result of the client, the provider's own error object, or a body that is
\* no completion
FailedReply(r) == r.parse # "object" \/ r.error # NoError \/ r.choices # "ok"

\* C11: a send whose remote call fails is persisted as one message row whose
\* assistant text contains the error description and whose token count is 0.
C11_FailedSendPersisted ==
    [][ \A s \in Sends :
          (Resumes(s) /\ FailedReply(exch[s].response)) =>
              /\ Len(db'.messages) = Len(db.messages) + 1
              /\ SavedRow.tokens_used = 0
              /\ \E i \in DOMAIN SavedRow.ai_response :
                    SavedRow.ai_response[i] = ErrorPrefix
              /\ exch[s].response.error # NoError =>
                    \E i \in DOMAIN SavedRow.ai_response :
                       SavedRow.ai_response[i] = exch[s].response.error
      ]_vars

\* the documented completion: choices[0].message.content and
\* usage.total_tokens are there and there is no error key
SuccessfulReply(r) ==
    r.parse = "object" /\ r.error = NoError /\ r.choices = "ok" /\ r.usage = "ok"

\* C12: for a send that receives a successful provider response the handler
\* saves one message row holding the user text that was sent, the assistant
\* text choices[0].message.content and the token count usage.total_tokens.
C12_SuccessfulSendSaved ==
    [][ \A s \in Sends :
          (Resumes(s) /\ SuccessfulReply(exch[s].response)) =>
              /\ exch'[s].pc = "done"
              /\ Len(db'.messages) = Len(db.messages) + 1
              /\ SavedRow.id = exch'[s].row_id
              /\ SavedRow.user_message = exch[s].user_message
              /\ SavedRow.ai_response = <<exch[s].response.content>>
              /\ SavedRow.tokens_used = exch[s].response.total_tokens
      ]_vars

\* a send of "hello" answered by content "hi" and 5 tokens has been saved
C12_Witness ==
    \E s \in Sends, i \in DOMAIN db.messages :
        /\ exch[s].pc = "done"
        /\ db.messages[i].id = exch[s].row_id
        /\ db.messages[i].user_message = "hello"
        /\ db.messages[i].ai_response = <<"hi">>
        /\ db.messages[i].tokens_used = 5

\* C16: the model identifier of the message row and of the analytics record
\* of an exchange is the one its completion request was sent with, whatever
\* the user selects and whichever sends overlap while it is in flight.
C16_SavedModelIsSentModel ==
    [][ \A s \in Sends :
          (Resumes(s) /\ exch'[s].pc = "done") =>
              /\ SavedRow.model = exch[s].model_sent
              /\ TrackedRow.model = exch[s].model_sent
      ]_vars

\* C17: when the store holds more than N message rows, get_chat_history(N)
\* returns exactly the N most recently inserted rows by descending
\* identifier, rows of one timestamp value included.
C17_NewestRowsByIdentifier ==
    (ret.op = "get_chat_history" /\ ret.limit >= 0
       /\ Len(db.messages) > ret.limit) =>
        /\ Len(ret.rows) = ret.limit
        /\ \A i \in DOMAIN ret.rows :
              ret.rows[i] = db.messages[Len(db.messages) + 1 - i]

(***************************************************************************)
(* Properties of the store's connections.                                  *)
(***************************************************************************)
\* the connections thread t has opened
OpenedBy(t) == { i \in DOMAIN connections : connections[i].opened_by = t }

\* C13: each thread that has called a store operation holds its own
\* connection, the only one it ever opened; no connection is held by two
\* threads; the connection of create_tables is none of them and is closed.
C13_ConnectionPerThread ==
    /\ \A t \in Threads :
          /\ Cardinality(OpenedBy(t)) <= 1
          /\ conn[t] # NoConn => OpenedBy(t) = {conn[t]}
          /\ (saved[t] > 0 \/ pc[t] # "idle"
                 \/ (ret.thread = t /\ ret.op # "__del__")) => conn[t] # NoConn
    /\ \A t, u \in Threads :
          (t # u /\ conn[t] # NoConn) => conn[t] # conn[u]
    /\ connections[1] = [opened_by |-> "create_tables", open |-> FALSE]
    /\ \A t \in Threads : conn[t] # 1

\* both threads have saved, t2 first and t1 twice: three connections were
\* made and each thread holds its own
C13_Witness ==
    /\ saved["t1"] = 2
    /\ saved["t2"] = 1
    /\ conn["t2"] = 2
    /\ conn["t1"] = 3
    /\ Len(connections) = 3
    /\ connections[2].open /\ connections[3].open

\* C14: when the store's lifetime has ended no connection any thread opened
\* on it is still open.
C14_TeardownReleasesAll ==
    ~alive => \A i \in DOMAIN connections : ~connections[i].open

(***************************************************************************)
(* Fault isolation of the client's operations.                             *)
(***************************************************************************)
\* C15: when the listing request of the constructor fails the constructor
\* still returns a client whose model list is the fallback list, and every
\* later send_message and get_balance is issued and answered by its own
\* request alone.
C15_ListingFailureIsolated ==
    /\ (cret.op = "__init__" /\ api_key # "" /\ ListingFailed(cret.outcome)) =>
          /\ client = "ready"
          /\ available_models = FallbackModels
    /\ cret.op = "send_message" =>
          /\ "chat/completions" \in requested
          /\ cret.reply = send_message(cret.outcome)
    /\ cret.op = "get_balance" =>
          /\ "credits" \in requested
          /\ cret.balance = get_balance(cret.outcome)

=============================================================================
